---- MODULE Spec2Model ----
(***************************************************************************)
(* ow-telegram-notifier: the alert diff / debounce engine                   *)
(* (generate_message_texts), its caller notify_about_alerts and the polling *)
(* loop of async_main, modelled from src/ow_telegram_notifier.py.           *)
(*                                                                          *)
(* Python values are modelled as follows.                                   *)
(*   - an alert (a dict) is a function from its keys to values; only the    *)
(*     key 'alertId' is read by the engine, so an alert is                  *)
(*     [alertId |-> id];                                                    *)
(*   - a list of alerts is a sequence;                                      *)
(*   - notify_aux is [is_none, d]: None, or the dict d, a function from     *)
(*     its string keys to id -> deadline maps;                              *)
(*   - a call ends either by returning or by raising; the outcome is a      *)
(*     record whose field exc is "none" or the exception's class, and       *)
(*     whose field line is the source line that raised.                     *)
(***************************************************************************)
EXTENDS Integers, Sequences, FiniteSets, TLC

VARIABLES pc, telegram_chat_id, wait_duration_s, current_alerts,
          notify_aux, clock, call, sent, track, fetched, render

vars == <<pc, telegram_chat_id, wait_duration_s, current_alerts,
          notify_aux, clock, call, sent, track, fetched, render>>

(* ------------------------------ bounds -------------------------------- *)

\* longest alert list a fetch returns
MaxAlerts == 2

\* size of the largest alert that is rendered: its characters, its labels
\* and its path segments, counted together
MaxSize == 2

\* the monotonic clock is followed up to this reading
MaxClock == 90

\* alert ids the alert source can report
AlertIds == {"a1", "a2"}

(* ------------------------- program constants -------------------------- *)

\* line 147: monotime() + 60
WaitSeconds == 60

\* line 64: sleep_interval default
SleepInterval == 5

\* line 91: await sleep(60) after a failed fetch
RetrySleep == 60

(* --------------------------- Python values ---------------------------- *)

EmptyMap == [x \in {} |-> 0]

DictSet(m, k, v) == [x \in (DOMAIN m) \cup {k} |-> IF x = k THEN v ELSE m[x]]

DictPop(m, k) == [x \in (DOMAIN m) \ {k} |-> m[x]]

Alert(id) == [alertId |-> id]

NoneAux == [is_none |-> TRUE, d |-> EmptyMap]

DictAux(d) == [is_none |-> FALSE, d |-> d]

\* the dict lines 125-127 build
FreshAux == DictAux([k \in {"waiting_alert_ids"} |-> EmptyMap])

\* Python truthiness of notify_aux: None and {} are falsy
Truthy(aux) == ~aux.is_none /\ DOMAIN aux.d # {}

AlertIdsOf(alerts) == {alerts[i].alertId : i \in 1..Len(alerts)}

\* the names bound in the body of generate_message_texts when line 132 runs:
\* its parameters and the two dicts of lines 128-129.  The module's globals
\* are functions, classes and imports; none is called old_alerts or
\* new_alerts.
Scope(previous_alerts, cur_alerts) ==
    [n \in {"previous_alerts", "current_alerts"} |->
        IF n = "previous_alerts" THEN previous_alerts ELSE cur_alerts]

ScopeDicts == {"old_alerts_by_id", "new_alerts_by_id", "notify_aux"}

(* ---------------------- generate_message_texts ------------------------ *)

\* one entry of a mentions_of_* list: the category glyph and the alert whose
\* alert_text follows it (lines 141, 143, 152)
Mention(glyph, a) == [glyph |-> glyph, alert |-> a]

\* the local state of a running call: the dict notify_aux refers to and the
\* three mention lists of lines 134-136
Running(d) ==
    [exc |-> "none", line |-> 0, d |-> d,
     closed_m |-> <<>>, short_m |-> <<>>, opened_m |-> <<>>]

Raise(st, exc, line) == [st EXCEPT !.exc = exc, !.line = line]

\* lines 138-143: for a in closed_alerts
RECURSIVE ClosedLoop(_, _)
ClosedLoop(closed_alerts, st) ==
    IF closed_alerts = <<>> \/ st.exc # "none" THEN st
    ELSE LET a == Head(closed_alerts) IN
         ClosedLoop(Tail(closed_alerts),
            IF "alerId" \notin DOMAIN a
              THEN Raise(st, "KeyError", 139)
            ELSE IF "waiting_alert_ids" \notin DOMAIN st.d
              THEN Raise(st, "KeyError", 139)
            ELSE IF a["alerId"] \in DOMAIN st.d["waiting_alert_ids"]
              THEN [st EXCEPT
                      !.d = DictSet(st.d, "waiting_alert_ids",
                                DictPop(st.d["waiting_alert_ids"], a.alertId)),
                      !.short_m = Append(@, Mention("short_lived", a))]
              ELSE [st EXCEPT !.closed_m = Append(@, Mention("closed", a))])

\* lines 145-147: for a in opened_alerts
RECURSIVE OpenedLoop(_, _, _)
OpenedLoop(opened_alerts, st, now) ==
    IF opened_alerts = <<>> \/ st.exc # "none" THEN st
    ELSE LET a == Head(opened_alerts) IN
         OpenedLoop(Tail(opened_alerts),
            IF "waiting_alerts" \notin DOMAIN st.d
              THEN Raise(st, "KeyError", 146)
            ELSE IF a.alertId \in DOMAIN st.d["waiting_alerts"]
              THEN Raise(st, "AssertionError", 146)
              ELSE [st EXCEPT
                      !.d = DictSet(st.d, "waiting_alerts",
                                DictSet(st.d["waiting_alerts"], a.alertId,
                                        now + WaitSeconds))],
            now)

\* lines 148-152: for a in current_alerts
RECURSIVE ConfirmLoop(_, _, _)
ConfirmLoop(cur_alerts, st, now) ==
    IF cur_alerts = <<>> \/ st.exc # "none" THEN st
    ELSE LET a == Head(cur_alerts) IN
         ConfirmLoop(Tail(cur_alerts),
            IF "waiting_alerts" \notin DOMAIN st.d
              THEN Raise(st, "KeyError", 149)
            ELSE IF ~(a.alertId \in DOMAIN st.d["waiting_alerts"]
                      /\ st.d["waiting_alerts"][a.alertId] # 0)
              THEN st
            ELSE IF ~(st.d["waiting_alerts"][a.alertId] <= now)
              THEN st
            ELSE IF "waiting_alert_ids" \notin DOMAIN st.d
              THEN Raise(st, "KeyError", 151)
            ELSE IF a.alertId \notin DOMAIN st.d["waiting_alert_ids"]
              THEN Raise(st, "KeyError", 151)
              ELSE [st EXCEPT
                      !.d = DictSet(st.d, "waiting_alert_ids",
                                DictPop(st.d["waiting_alert_ids"], a.alertId)),
                      !.opened_m = Append(@, Mention("opened", a))],
            now)

\* line 153: the assertion on the keys of notify_aux['waiting_alerts']
FinalAssert(cur_alerts, st) ==
    IF st.exc # "none" THEN st
    ELSE IF "waiting_alerts" \notin DOMAIN st.d
      THEN Raise(st, "KeyError", 153)
    ELSE IF ~(DOMAIN st.d["waiting_alerts"] \subseteq AlertIdsOf(cur_alerts))
      THEN Raise(st, "AssertionError", 153)
      ELSE st

\* lines 154-159: one text per mention list, a list's mentions joined by
\* '\n'; the empty texts are dropped
MessageTexts(st) ==
    SelectSeq(<<st.closed_m, st.short_m, st.opened_m>>, LAMBDA t : t # <<>>)

\* the outcome of a call.  message_texts and notify_aux are what line 160
\* returns (empty and None when the call raised); arg_after is the value the
\* caller's notify_aux object holds when the call ends: the function works
\* on that object in place when it is truthy (line 124), on a fresh dict
\* otherwise.  ret_is_arg tells that the returned notify_aux is the very
\* object that was passed (line 160 returns the name of line 124).
Outcome(st, notify_aux_arg) ==
    [exc |-> st.exc,
     line |-> st.line,
     message_texts |-> IF st.exc = "none" THEN MessageTexts(st) ELSE <<>>,
     mentions |-> IF st.exc = "none"
                    THEN st.closed_m \o st.short_m \o st.opened_m ELSE <<>>,
     notify_aux |-> IF st.exc = "none" THEN DictAux(st.d) ELSE NoneAux,
     arg_after |-> IF Truthy(notify_aux_arg) THEN DictAux(st.d)
                   ELSE notify_aux_arg,
     ret_is_arg |-> st.exc = "none" /\ Truthy(notify_aux_arg)]

\* lines 132-153, entered once the assertions of lines 130-131 passed
Classify(previous_alerts, cur_alerts, st, now) ==
    LET scope == Scope(previous_alerts, cur_alerts) IN
    IF "old_alerts" \notin (DOMAIN scope) \cup ScopeDicts
      THEN Raise(st, "NameError", 132)
    ELSE IF "new_alerts" \notin (DOMAIN scope) \cup ScopeDicts
      THEN Raise(st, "NameError", 133)
    ELSE
      LET closed_alerts ==
              SelectSeq(scope["old_alerts"],
                        LAMBDA a : a.alertId \notin AlertIdsOf(cur_alerts))
          opened_alerts ==
              SelectSeq(scope["new_alerts"],
                        LAMBDA a : a.alertId \notin AlertIdsOf(previous_alerts))
          s1 == ClosedLoop(closed_alerts, st)
          s2 == OpenedLoop(opened_alerts, s1, now)
          s3 == ConfirmLoop(cur_alerts, s2, now)
      IN FinalAssert(cur_alerts, s3)

\* generate_message_texts without the assertion of line 131
generate_message_texts_no_131(previous_alerts, cur_alerts, notify_aux_arg, now) ==
    LET d0 == IF Truthy(notify_aux_arg) THEN notify_aux_arg.d ELSE FreshAux.d
        st0 == Running(d0)
    IN Outcome(
        IF Cardinality(AlertIdsOf(previous_alerts)) # Len(previous_alerts)
          THEN Raise(st0, "AssertionError", 130)
          ELSE Classify(previous_alerts, cur_alerts, st0, now),
        notify_aux_arg)

\* lines 120-160.  now is the reading of monotime() during the call (lines
\* 147 and 150); the function has no parameter for it nor for the grace
\* duration.
generate_message_texts(previous_alerts, cur_alerts, notify_aux_arg, now) ==
    LET d0 == IF Truthy(notify_aux_arg) THEN notify_aux_arg.d ELSE FreshAux.d
        st0 == Running(d0)
    IN Outcome(
        IF Cardinality(AlertIdsOf(previous_alerts)) # Len(previous_alerts)
          THEN Raise(st0, "AssertionError", 130)
        ELSE IF Cardinality(AlertIdsOf(cur_alerts)) # Len(cur_alerts)
          THEN Raise(st0, "AssertionError", 131)
          ELSE Classify(previous_alerts, cur_alerts, st0, now),
        notify_aux_arg)

(* ------------------------------ rendering ---------------------------- *)

\* strings are sequences of characters.  The characters line 170 escapes,
\* in its order:  _ * [ ] ( ) ~ ` > # + - = | { } . !
\* the grave accent, which a string of this notation cannot hold
Backtick == "grave"

Specials ==
    <<"_", "*", "[", "]", "(", ")", "~", Backtick, ">", "#", "+", "-", "=", "|",
      "{", "}", ".", "!">>

SpecialChars == {Specials[i] : i \in 1..Len(Specials)}

\* the characters of the fields of an alert: the escaped ones, a letter and
\* the backslash, which line 170 does not escape (a field's backslash before
\* one of the escaped characters comes out as two backslashes before it)
Chars == SpecialChars \cup {"a", "\\"}

\* str.replace(c, r) for a one-character c
RECURSIVE StrReplace(_, _, _)
StrReplace(str, c, r) ==
    IF str = <<>> THEN <<>>
    ELSE (IF Head(str) = c THEN r ELSE <<Head(str)>>)
            \o StrReplace(Tail(str), c, r)

\* str.join(parts)
RECURSIVE StrJoin(_, _)
StrJoin(sep, parts) ==
    IF parts = <<>> THEN <<>>
    ELSE IF Len(parts) = 1 THEN parts[1]
    ELSE parts[1] \o sep \o StrJoin(sep, Tail(parts))

\* the loop of lines 170-171 over the characters cs
RECURSIVE EscapeLoop(_, _)
EscapeLoop(cs, str) ==
    IF cs = <<>> THEN str
    ELSE EscapeLoop(Tail(cs), StrReplace(str, Head(cs), <<"\\", Head(cs)>>))

\* tg_md2_escape with the full stop missing from the string of line 170
tg_md2_escape_without_full_stop(str) ==
    EscapeLoop(SelectSeq(Specials, LAMBDA c : c # "."), str)

\* lines 163-172
tg_md2_escape(str) == EscapeLoop(Specials, str)

\* json.loads of the labelJSON text (line 181), the text given by the
\* members of its object in their order: a dict keeps the place of the
\* first member of a key and the value of the last one
RECURSIVE JsonLoadsObject(_, _)
JsonLoadsObject(members, dict) ==
    IF members = <<>> THEN dict
    ELSE LET m == Head(members)
             at == {i \in 1..Len(dict) : dict[i].k = m.k}
         IN JsonLoadsObject(Tail(members),
                IF at = {} THEN Append(dict, m)
                ELSE [i \in 1..Len(dict) |->
                         IF i \in at THEN m ELSE dict[i]])

\* one piece of the rendered text: field tells that it is the escaped value
\* of a field of the alert, as opposed to markup the format strings of
\* lines 182-187 put around it
Piece(field, str) == [field |-> field, str |-> str]

\* line 182: the pieces of one label
LabelPieces(m) ==
    <<Piece(TRUE, tg_md2_escape(m.k)), Piece(FALSE, tg_md2_escape(<<"=">>)),
      Piece(FALSE, <<Backtick>>), Piece(TRUE, tg_md2_escape(m.v)),
      Piece(FALSE, <<Backtick>>)>>

RECURSIVE LabelStr(_)
LabelStr(dict) ==
    IF dict = <<>> THEN <<>>
    ELSE IF Len(dict) = 1 THEN LabelPieces(dict[1])
    ELSE LabelPieces(dict[1]) \o <<Piece(FALSE, <<" ">>)>> \o LabelStr(Tail(dict))

\* lines 175-187, for an alert whose fields are strings (the except branch
\* of lines 188-190 is for alerts that are not): the pieces of the text
alert_text(alert) ==
    LET label == JsonLoadsObject(alert.labelJSON, <<>>)
        path == StrJoin(<<">">>, alert.itemPath)
        last == IF alert.lastItemValueJSON.is_none
                     \/ alert.lastItemValueJSON.str = <<>>
                  THEN Piece(FALSE, tg_md2_escape(<<"-">>))
                  ELSE Piece(TRUE, tg_md2_escape(alert.lastItemValueJSON.str))
    IN LabelStr(label)
         \o <<Piece(FALSE, <<" ", "*">>),
              Piece(TRUE, tg_md2_escape(alert.alertType)),
              Piece(FALSE, <<"*", " ">>),
              Piece(TRUE, tg_md2_escape(path)),
              Piece(FALSE, <<" ">>),
              last,
              Piece(FALSE, <<" ">>),
              Piece(FALSE, tg_md2_escape(<<"(">>)),
              Piece(FALSE, <<Backtick>>),
              Piece(TRUE, tg_md2_escape(alert.alertId)),
              Piece(FALSE, <<Backtick>>),
              Piece(FALSE, tg_md2_escape(<<")">>))>>

\* the alert with empty fields, no label, no path segment and no last value
EmptyAlert ==
    [alertId |-> <<>>, alertType |-> <<>>, itemPath |-> <<>>,
     labelJSON |-> <<>>, lastItemValueJSON |-> [is_none |-> TRUE, str |-> <<>>]]

RECURSIVE SumLen(_)
SumLen(strs) == IF strs = <<>> THEN 0 ELSE Len(Head(strs)) + SumLen(Tail(strs))

RECURSIVE SumMembers(_)
SumMembers(ms) ==
    IF ms = <<>> THEN 0
    ELSE 1 + Len(Head(ms).k) + Len(Head(ms).v) + SumMembers(Tail(ms))

AlertSize(alert) ==
    Len(alert.alertId) + Len(alert.alertType)
      + Len(alert.itemPath) + SumLen(alert.itemPath)
      + SumMembers(alert.labelJSON)
      + Len(alert.lastItemValueJSON.str)

\* no alert is being rendered
NoRender == [done |-> FALSE, alert |-> EmptyAlert, text |-> <<>>]

(* ------------------- notify_about_alerts, async_main ------------------ *)

\* a call that has not been made
NoOutcome ==
    [exc |-> "not_called", line |-> 0, message_texts |-> <<>>,
     mentions |-> <<>>, notify_aux |-> NoneAux, arg_after |-> NoneAux,
     ret_is_arg |-> FALSE]

\* lines 106-117.  With no telegram_chat_id the function returns None
\* (line 109) without calling the engine; an exception of the engine
\* propagates (no try in the function), and the texts of a returning call
\* are sent one by one.
notify_about_alerts(chat_id, old_alerts, new_alerts, notify_aux_arg, now) ==
    IF ~chat_id
      THEN [NoOutcome EXCEPT !.exc = "none", !.arg_after = notify_aux_arg]
      ELSE generate_message_texts(old_alerts, new_alerts, notify_aux_arg, now)

\* the lists retrieve_alerts can return (line 302): the nodes of the
\* response, in its order
AlertLists ==
    UNION {[1..n -> {Alert(id) : id \in AlertIds}] : n \in 0..MaxAlerts}

\* the id -> deadline maps a carried state can hold
Deadlines == {0, SleepInterval, WaitSeconds, WaitSeconds + SleepInterval}

PendingMaps == UNION {[ids -> Deadlines] : ids \in SUBSET AlertIds}

\* the values a caller can pass as notify_aux: None, {} and the dict of
\* lines 125-127 with some alerts waiting
AuxValues ==
    {NoneAux, DictAux(EmptyMap)}
      \cup {DictAux([k \in {"waiting_alert_ids"} |-> p]) : p \in PendingMaps}

\* bookkeeping about each alert id over a run of ticks (not program state):
\* opened_at is the time of the tick at which the alert appeared (-1 when
\* it is absent or was there from the start), due tells that a tick at a
\* time >= opened_at + WaitSeconds has run with it present, and the n_
\* fields count the mentions it got since it appeared; flapped tells that
\* the alert once disappeared at a tick of time < opened_at + WaitSeconds
NoTrack == [opened_at |-> -1, due |-> FALSE, n_opened |-> 0, flapped |-> FALSE]

CountMentions(mentions, glyph, id) ==
    Cardinality({i \in 1..Len(mentions) :
                    mentions[i].glyph = glyph /\ mentions[i].alert.alertId = id})

TrackAfter(tr, old_alerts, new_alerts, res, now) ==
    [id \in AlertIds |->
        IF id \notin AlertIdsOf(new_alerts)
          THEN [NoTrack EXCEPT
                  !.flapped = tr[id].flapped
                                \/ (/\ id \in AlertIdsOf(old_alerts)
                                    /\ tr[id].opened_at >= 0
                                    /\ now < tr[id].opened_at + WaitSeconds)]
        ELSE IF id \notin AlertIdsOf(old_alerts)
          THEN [opened_at |-> now,
                due |-> (now >= now + WaitSeconds),
                n_opened |-> CountMentions(res.mentions, "opened", id),
                flapped |-> tr[id].flapped]
        ELSE IF tr[id].opened_at < 0 THEN tr[id]
          ELSE [tr[id] EXCEPT
                  !.due = @ \/ now >= tr[id].opened_at + WaitSeconds,
                  !.n_opened = @ + CountMentions(res.mentions, "opened", id)]]

NoCall ==
    [made |-> FALSE, previous_alerts |-> <<>>, current_alerts |-> <<>>,
     aux_in |-> NoneAux, now |-> 0, res |-> NoOutcome,
     track_before |-> [id \in AlertIds |-> NoTrack]]

CallRecord(old_alerts, new_alerts, aux_in, now, res) ==
    [made |-> TRUE, previous_alerts |-> old_alerts,
     current_alerts |-> new_alerts, aux_in |-> aux_in, now |-> now,
     res |-> res, track_before |-> track]

NothingSent == [texts |-> <<>>, exception |-> "none"]

\* the locals of the loop body of async_main: new_alerts, unbound until a
\* fetch of the loop has returned (line 88) and then the list of the last
\* fetch that returned, and the value notify_about_alerts returned for it
\* (line 93; None when it raised)
NotFetched == [bound |-> FALSE, list |-> <<>>, returned |-> NoneAux]

Fetched(alerts, returned) ==
    [bound |-> TRUE, list |-> alerts, returned |-> returned]

\* lines 67-72: the initial fetch gives current_alerts, notify_aux is None
Init ==
    /\ pc = "loop"
    /\ telegram_chat_id \in BOOLEAN
    /\ wait_duration_s = WaitSeconds
    /\ current_alerts \in AlertLists
    /\ notify_aux = NoneAux
    /\ clock = 0
    /\ call = NoCall
    /\ sent = NothingSent
    /\ track = [id \in AlertIds |-> NoTrack]
    /\ fetched = NotFetched
    /\ render = NoRender

\* FetchFailed with the remembered list emptied on a failed fetch
FetchFailed_drops_alerts ==
    /\ pc = "loop"
    /\ clock + SleepInterval + RetrySleep <= MaxClock
    /\ clock' = clock + SleepInterval + RetrySleep
    /\ sent' = NothingSent
    /\ current_alerts' = <<>>
    /\ UNCHANGED <<pc, telegram_chat_id, wait_duration_s,
                   notify_aux, call, track, fetched, render>>

\* lines 86-92: the sleep, a fetch that raises or times out, the sleep of
\* 60 s and continue
FetchFailed ==
    /\ pc = "loop"
    /\ clock + SleepInterval + RetrySleep <= MaxClock
    /\ clock' = clock + SleepInterval + RetrySleep
    /\ sent' = NothingSent
    /\ UNCHANGED <<pc, telegram_chat_id, wait_duration_s, current_alerts,
                   notify_aux, call, track, fetched, render>>

\* Cycle without the slice assignment of line 94
Cycle_no_slice_assignment(new_alerts) ==
    /\ pc = "loop"
    /\ clock + SleepInterval <= MaxClock
    /\ clock' = clock + SleepInterval
    /\ LET res == notify_about_alerts(telegram_chat_id, current_alerts,
                                      new_alerts, notify_aux, clock')
       IN /\ call' = IF telegram_chat_id
                          THEN CallRecord(current_alerts, new_alerts,
                                          notify_aux, clock', res)
                          ELSE NoCall
          /\ IF res.exc = "none"
               THEN /\ notify_aux' = res.notify_aux
                    /\ current_alerts' = current_alerts
                    /\ sent' = [texts |-> res.message_texts,
                                exception |-> "none"]
                    /\ pc' = "loop"
               ELSE /\ notify_aux' = res.arg_after
                    /\ current_alerts' = current_alerts
                    /\ sent' = [texts |-> <<>>, exception |-> res.exc]
                    /\ pc' = "failed"
          /\ track' = TrackAfter(track, current_alerts, new_alerts, res,
                                 clock')
          /\ fetched' = Fetched(new_alerts, res.notify_aux)
    /\ UNCHANGED <<telegram_chat_id, wait_duration_s, render>>

\* lines 86-88 and 93-101: the sleep, a fetch that returns new_alerts, the
\* notification step and the slice assignment; an exception of the
\* notification step leaves the while loop for the handler of line 95,
\* which sends the exception's text and ends async_main
Cycle(new_alerts) ==
    /\ pc = "loop"
    /\ clock + SleepInterval <= MaxClock
    /\ clock' = clock + SleepInterval
    /\ LET res == notify_about_alerts(telegram_chat_id, current_alerts,
                                      new_alerts, notify_aux, clock')
       IN /\ call' = IF telegram_chat_id
                          THEN CallRecord(current_alerts, new_alerts,
                                          notify_aux, clock', res)
                          ELSE NoCall
          /\ IF res.exc = "none"
               THEN /\ notify_aux' = res.notify_aux
                    /\ current_alerts' = new_alerts
                    /\ sent' = [texts |-> res.message_texts,
                                exception |-> "none"]
                    /\ pc' = "loop"
               ELSE /\ notify_aux' = res.arg_after
                    /\ current_alerts' = current_alerts
                    /\ sent' = [texts |-> <<>>, exception |-> res.exc]
                    /\ pc' = "failed"
          /\ track' = TrackAfter(track, current_alerts, new_alerts, res,
                                 clock')
          /\ fetched' = Fetched(new_alerts, res.notify_aux)
    /\ UNCHANGED <<telegram_chat_id, wait_duration_s, render>>

Next ==
    \/ FetchFailed
    \/ \E new_alerts \in AlertLists : Cycle(new_alerts)

\* the polling loop of async_main
Spec == Init /\ [][Next]_vars

(* --------------------- one call on drawn arguments -------------------- *)

\* the grace durations a caller may configure: the fixture of the tests
\* sets wait_duration_s = 90 (src/test_ow_telegram_notifier.py, line 10);
\* generate_message_texts has no parameter that could receive it
WaitDurations == {0, WaitSeconds}

InitCall ==
    /\ pc = "ready"
    /\ telegram_chat_id = TRUE
    /\ wait_duration_s \in WaitDurations
    /\ current_alerts \in AlertLists
    /\ notify_aux \in AuxValues
    /\ clock \in {0, SleepInterval, WaitSeconds + SleepInterval}
    /\ call = NoCall
    /\ sent = NothingSent
    /\ track = [id \in AlertIds |-> NoTrack]
    /\ fetched = NotFetched
    /\ render = NoRender

\* generate_message_texts(current_alerts, new_alerts, notify_aux) called
\* directly, the way the tests call it; the caller's notify_aux is rebound
\* when the call returns and keeps its object when the call raises
Call(new_alerts) ==
    /\ pc = "ready"
    /\ pc' = "called"
    /\ LET res == generate_message_texts(current_alerts, new_alerts,
                                         notify_aux, clock)
       IN /\ call' = CallRecord(current_alerts, new_alerts, notify_aux,
                                clock, res)
          /\ notify_aux' = IF res.exc = "none" THEN res.notify_aux
                           ELSE res.arg_after
    /\ UNCHANGED <<telegram_chat_id, wait_duration_s, current_alerts, clock,
                   sent, track, fetched, render>>

NextCall == \E new_alerts \in AlertLists : Call(new_alerts)

SpecCall == InitCall /\ [][NextCall]_vars

(* ------------------------- a sequence of ticks ------------------------ *)

\* the start of the tests' scenarios: no alert, notify_aux = None
InitTicks ==
    /\ pc = "ticks"
    /\ telegram_chat_id = TRUE
    /\ wait_duration_s = WaitSeconds
    /\ current_alerts = <<>>
    /\ notify_aux = NoneAux
    /\ clock = 0
    /\ call = NoCall
    /\ sent = NothingSent
    /\ track = [id \in AlertIds |-> NoTrack]
    /\ fetched = NotFetched
    /\ render = NoRender

\* one tick: the engine is called with the prior tick's current list as
\* previous_alerts and the carried notify_aux, dt seconds after the prior
\* tick.  A call that raises returns no state, so the carried notify_aux
\* keeps its object; the next tick's previous list is this tick's current
\* list either way.
Tick(new_alerts, dt) ==
    /\ pc = "ticks"
    /\ clock + dt <= MaxClock
    /\ clock' = clock + dt
    /\ LET res == generate_message_texts(current_alerts, new_alerts,
                                         notify_aux, clock')
       IN /\ call' = CallRecord(current_alerts, new_alerts, notify_aux,
                                clock', res)
          /\ notify_aux' = IF res.exc = "none" THEN res.notify_aux
                           ELSE res.arg_after
          /\ track' = TrackAfter(track, current_alerts, new_alerts, res,
                                 clock')
    /\ current_alerts' = new_alerts
    /\ UNCHANGED <<pc, telegram_chat_id, wait_duration_s, sent, fetched,
                   render>>

NextTicks ==
    \E new_alerts \in AlertLists, dt \in {SleepInterval, RetrySleep} :
        Tick(new_alerts, dt)

SpecTicks == InitTicks /\ [][NextTicks]_vars

(* --------------------------- rendering an alert ----------------------- *)

InitRender ==
    /\ pc = "render"
    /\ telegram_chat_id = TRUE
    /\ wait_duration_s = WaitSeconds
    /\ current_alerts = <<>>
    /\ notify_aux = NoneAux
    /\ clock = 0
    /\ call = NoCall
    /\ sent = NothingSent
    /\ track = [id \in AlertIds |-> NoTrack]
    /\ fetched = NotFetched
    /\ render = NoRender

RenderFrame ==
    UNCHANGED <<pc, telegram_chat_id, wait_duration_s, current_alerts,
                notify_aux, clock, call, sent, track, fetched>>

\* the alert source can make the alert larger by one
CanGrow ==
    /\ ~render.done
    /\ AlertSize(render.alert) + 1 <= MaxSize

Grow(alert) ==
    /\ render' = [render EXCEPT !.alert = alert]
    /\ RenderFrame

\* the alert gets one more character in its id, its type or its last value
GrowField ==
    /\ CanGrow
    /\ \E c \in Chars :
         \/ Grow([render.alert EXCEPT !.alertId = Append(@, c)])
         \/ Grow([render.alert EXCEPT !.alertType = Append(@, c)])
         \/ Grow([render.alert EXCEPT
                    !.lastItemValueJSON =
                        [is_none |-> FALSE, str |-> Append(@.str, c)]])

\* the alert gets a last value that is the empty string
GrowLastValue ==
    /\ ~render.done
    /\ render.alert.lastItemValueJSON.is_none
    /\ Grow([render.alert EXCEPT
               !.lastItemValueJSON = [is_none |-> FALSE, str |-> <<>>]])

\* one more path segment, or one more character in the last segment
GrowPath ==
    /\ CanGrow
    /\ \/ Grow([render.alert EXCEPT !.itemPath = Append(@, <<>>)])
       \/ /\ render.alert.itemPath # <<>>
          /\ \E c \in Chars :
               Grow([render.alert EXCEPT
                       !.itemPath[Len(render.alert.itemPath)] = Append(@, c)])

\* one more label, or one more character in the key or the value of the
\* last label
GrowLabel ==
    /\ CanGrow
    /\ \/ Grow([render.alert EXCEPT
                  !.labelJSON = Append(@, [k |-> <<>>, v |-> <<>>])])
       \/ /\ render.alert.labelJSON # <<>>
          /\ \E c \in Chars :
               \/ Grow([render.alert EXCEPT
                          !.labelJSON[Len(render.alert.labelJSON)].k
                              = Append(@, c)])
               \/ Grow([render.alert EXCEPT
                          !.labelJSON[Len(render.alert.labelJSON)].v
                              = Append(@, c)])

\* alert_text(alert) is called on the alert
Render ==
    /\ ~render.done
    /\ render' = [render EXCEPT !.done = TRUE,
                                !.text = alert_text(render.alert)]
    /\ RenderFrame

NextRender ==
    \/ GrowField
    \/ GrowLastValue
    \/ GrowPath
    \/ GrowLabel
    \/ Render

SpecRender == InitRender /\ [][NextRender]_vars

(* ------------------------------ claims -------------------------------- *)

Returned(res) == res.exc = "none"

\* the pending map of a state: empty for None and for a dict without the
\* key
Pending(aux) ==
    IF ~aux.is_none /\ "waiting_alert_ids" \in DOMAIN aux.d
      THEN aux.d["waiting_alert_ids"] ELSE EmptyMap

NoDup(alerts) == Cardinality(AlertIdsOf(alerts)) = Len(alerts)

UniqueCall ==
    call.made /\ NoDup(call.previous_alerts) /\ NoDup(call.current_alerts)

ClosedIds == AlertIdsOf(call.previous_alerts) \ AlertIdsOf(call.current_alerts)

OpenedIds == AlertIdsOf(call.current_alerts) \ AlertIdsOf(call.previous_alerts)

\* C1: over a run of ticks, an alert that appeared at a tick of time t and
\* is absent at a later tick of time < t + wait_duration gets exactly one
\* closed-short-lived event at the tick it disappears, and no
\* opened-confirmed event at that tick or before it.
C1_FlapSuppression ==
    \A id \in AlertIds :
        (/\ UniqueCall
         /\ id \in ClosedIds
         /\ call.track_before[id].opened_at >= 0
         /\ call.now < call.track_before[id].opened_at + WaitSeconds)
        => /\ CountMentions(call.res.mentions, "short_lived", id) = 1
           /\ CountMentions(call.res.mentions, "closed", id) = 0
           /\ CountMentions(call.res.mentions, "opened", id) = 0
           /\ call.track_before[id].n_opened = 0

\* C2: over a run of ticks, an alert that appeared at a tick of time t and
\* has been present since has got no opened-confirmed event before the
\* first tick of time >= t + wait_duration and exactly one from that tick
\* on.
C2_Confirmation ==
    \A id \in AlertIds :
        (UniqueCall /\ track[id].opened_at >= 0)
        => track[id].n_opened = (IF track[id].due THEN 1 ELSE 0)

\* C3: over a run of ticks, an alert that was confirmed (it stayed through
\* the tick of time >= t + wait_duration at which C2 places its
\* opened-confirmed event) gets, at the first later tick at which it is
\* absent, exactly one closed-long-lived event and no closed-short-lived
\* event.
C3_ClosureAfterConfirmation ==
    \A id \in AlertIds :
        (/\ UniqueCall
         /\ id \in ClosedIds
         /\ call.track_before[id].due)
        => /\ CountMentions(call.res.mentions, "closed", id) = 1
           /\ CountMentions(call.res.mentions, "short_lived", id) = 0

\* C4: after every call of generate_message_texts made by the polling loop
\* on lists with unique ids, the call has returned a pending map, and each
\* of its keys is the id of an alert of that call's current list.
C4_PendingWithinCurrent ==
    UniqueCall
    => /\ Returned(call.res)
       /\ DOMAIN Pending(call.res.notify_aux)
             \subseteq AlertIdsOf(call.current_alerts)

\* C5: a call whose previous and current lists are the same list X of
\* unique ids returns, whatever the state and the time, no event and a
\* pending map equal to the state's.
C5_Idempotence ==
    (UniqueCall /\ call.previous_alerts = call.current_alerts)
    => /\ Returned(call.res)
       /\ call.res.mentions = <<>>
       /\ Pending(call.res.notify_aux) = Pending(call.aux_in)

\* C6: a call whose previous and current lists hold the same ids, made with
\* no pending deadline <= now, returns an empty message list and the
\* pending map it was passed; two empty lists with the state None return
\* no message.
C6_NothingToReport ==
    (/\ UniqueCall
     /\ AlertIdsOf(call.previous_alerts) = AlertIdsOf(call.current_alerts)
     /\ \A id \in DOMAIN Pending(call.aux_in) :
            Pending(call.aux_in)[id] > call.now)
    => /\ Returned(call.res)
       /\ call.res.message_texts = <<>>
       /\ Pending(call.res.notify_aux) = Pending(call.aux_in)

\* C7: a call whose previous or current list holds two alerts of the same
\* id fails on the duplicate-id assertion (line 130 or 131): it returns no
\* messages, and the caller's notify_aux is after the call what it was
\* before.
C7_DuplicateIdsRejected ==
    (call.made /\ ~(NoDup(call.previous_alerts) /\ NoDup(call.current_alerts)))
    => /\ call.res.exc = "AssertionError"
       /\ call.res.line \in {130, 131}
       /\ call.res.message_texts = <<>>
       /\ notify_aux = call.aux_in

\* C7 witness: a call with a duplicate in the current list only, made with
\* alerts waiting in the carried state, has failed on the assertion.
C7_Witness ==
    /\ call.made
    /\ NoDup(call.previous_alerts)
    /\ ~NoDup(call.current_alerts)
    /\ DOMAIN Pending(call.aux_in) # {}
    /\ call.res.exc = "AssertionError"

GlyphRank(glyph) ==
    IF glyph = "closed" THEN 1 ELSE IF glyph = "short_lived" THEN 2 ELSE 3

\* the position of the alert of id in a list of unique ids
PositionIn(alerts, id) ==
    CHOOSE i \in 1..Len(alerts) : alerts[i].alertId = id

\* C8: a call that has a closed or a confirmed alert to report returns an
\* output in which the closed-long-lived events come first, then the
\* closed-short-lived ones, then the opened-confirmed ones, the closed
\* events in the order of the previous list and the opened-confirmed ones
\* in the order of the current list.
C8_OutputOrder ==
    (UniqueCall /\ ClosedIds # {})
    => /\ Returned(call.res)
       /\ call.res.mentions # <<>>
       /\ \A i, j \in 1..Len(call.res.mentions) :
            i < j =>
              LET mi == call.res.mentions[i]
                  mj == call.res.mentions[j]
              IN /\ GlyphRank(mi.glyph) <= GlyphRank(mj.glyph)
                 /\ (mi.glyph = mj.glyph /\ mi.glyph # "opened")
                      => PositionIn(call.previous_alerts, mi.alert.alertId)
                           < PositionIn(call.previous_alerts, mj.alert.alertId)
                 /\ (mi.glyph = mj.glyph /\ mi.glyph = "opened")
                      => PositionIn(call.current_alerts, mi.alert.alertId)
                           < PositionIn(call.current_alerts, mj.alert.alertId)

\* C9: when the grace duration is 0, a call confirms at once, whatever the
\* time, every alert that is in the current list and not in the previous
\* one: it returns one opened-confirmed event for it and a pending map
\* without its id.
C9_ZeroWaitConfirmsAtOnce ==
    \A id \in AlertIds :
        (UniqueCall /\ wait_duration_s = 0 /\ id \in OpenedIds)
        => /\ Returned(call.res)
           /\ CountMentions(call.res.mentions, "opened", id) = 1
           /\ id \notin DOMAIN Pending(call.res.notify_aux)

\* C10: a call made with the state None returns, and returns the messages
\* and the pending map that the call with the same lists, at the same time,
\* and a state of empty pending map returns.
C10_NoneIsEmptyState ==
    (call.made /\ call.aux_in = NoneAux)
    => LET other == generate_message_texts(call.previous_alerts,
                        call.current_alerts, FreshAux, call.now)
       IN /\ Returned(call.res)
          /\ Returned(other)
          /\ call.res.message_texts = other.message_texts
          /\ Pending(call.res.notify_aux) = Pending(other.notify_aux)

\* the ignore predicates a caller may configure (is_message_ignored of the
\* tests' fixture, src/test_ow_telegram_notifier.py lines 12-14): a message
\* text is ignored when it mentions an alert of one of the ids of ign.
\* generate_message_texts has no parameter that could receive a predicate.
IgnoredText(text, ign) ==
    \E i \in 1..Len(text) : text[i].alert.alertId \in ign

NotIgnored(texts, ign) ==
    SelectSeq(texts, LAMBDA text : ~IgnoredText(text, ign))

\* C11: at each tick of a run, whatever the ignore predicate, the call
\* returns the pending map it returns when nothing is ignored, and its
\* messages are the not ignored messages of that output, in its order.
C11_IgnoringKeepsBookkeeping ==
    UniqueCall
    => \A ign \in SUBSET AlertIds :
         LET unfiltered == generate_message_texts(call.previous_alerts,
                               call.current_alerts, call.aux_in, call.now)
         IN /\ Returned(call.res)
            /\ Returned(unfiltered)
            /\ Pending(call.res.notify_aux) = Pending(unfiltered.notify_aux)
            /\ call.res.message_texts
                 = NotIgnored(unfiltered.message_texts, ign)

\* the readings of the monotonic clock a call can be made at
ClockReadings == {0, SleepInterval, WaitSeconds, WaitSeconds + SleepInterval}

\* C12: a call returns, and the call with the same lists and the same
\* state made at any other reading of the monotonic clock returns the same
\* messages and the same pending map.
C12_Deterministic ==
    UniqueCall
    => \A t \in ClockReadings :
         LET other == generate_message_texts(call.previous_alerts,
                          call.current_alerts, call.aux_in, t)
         IN /\ Returned(call.res)
            /\ Returned(other)
            /\ call.res.message_texts = other.message_texts
            /\ Pending(call.res.notify_aux) = Pending(other.notify_aux)

\* C13: a call made with a grace duration > 0 returns, for each alert that
\* is in the current list and not in the previous one, a pending map that
\* holds now + wait_duration for its id, and no event for it.
C13_OpenedIsRecorded ==
    \A id \in AlertIds :
        (UniqueCall /\ wait_duration_s > 0 /\ id \in OpenedIds)
        => /\ Returned(call.res)
           /\ id \in DOMAIN Pending(call.res.notify_aux)
           /\ Pending(call.res.notify_aux)[id] = call.now + wait_duration_s
           /\ \A i \in 1..Len(call.res.mentions) :
                  call.res.mentions[i].alert.alertId # id

\* C14: a cycle of the polling loop whose classification fails on duplicate
\* alert ids sends nothing and leaves the loop running.
C14_FailedCycleKeepsLoop ==
    (call.made /\ call.res.exc = "AssertionError")
    => /\ pc = "loop"
       /\ sent = NothingSent

\* C15: a call returns without having modified the state passed to it: the
\* pending map of the passed state holds after the call the entries it
\* held before, and the returned state is another value than the passed
\* one.
C15_StateNotModified ==
    UniqueCall
    => /\ Returned(call.res)
       /\ Pending(call.res.arg_after) = Pending(call.aux_in)
       /\ ~call.res.ret_is_arg

\* C16: a call returns, for every alert that is in the previous list and
\* not in the current one, exactly one event: closed-short-lived when its
\* id is in the pending map passed in, closed-long-lived otherwise; and no
\* alert id gets events of two categories.
C16_OneEventPerClosedAlert ==
    \A id \in AlertIds :
        (UniqueCall /\ id \in ClosedIds)
        => /\ Returned(call.res)
           /\ CountMentions(call.res.mentions, "short_lived", id)
                = (IF id \in DOMAIN Pending(call.aux_in) THEN 1 ELSE 0)
           /\ CountMentions(call.res.mentions, "closed", id)
                = (IF id \in DOMAIN Pending(call.aux_in) THEN 0 ELSE 1)
           /\ CountMentions(call.res.mentions, "opened", id) = 0

\* C18: over a run of ticks, an alert that closed before its confirmation
\* and appears again is, after the tick at which it reappears, in the
\* carried pending map with the deadline of that tick's now + wait_duration.
C18_ReopenResetsDeadline ==
    \A id \in AlertIds :
        (/\ UniqueCall
         /\ id \in OpenedIds
         /\ call.track_before[id].flapped)
        => /\ Returned(call.res)
           /\ id \in DOMAIN Pending(notify_aux)
           /\ Pending(notify_aux)[id] = call.now + WaitSeconds

\* C19: a cycle of the polling loop whose fetch fails (the step that sleeps
\* sleep_interval and then 60 s) sends nothing, leaves the remembered alert
\* list and the carried notify_aux as they were and leaves the loop
\* running; and a cycle that calls the engine passes it the remembered
\* list, that of the last fetch that returned, and the carried notify_aux.
C19_FailedFetchKeepsState ==
    [][ /\ (clock' = clock + SleepInterval + RetrySleep)
           => /\ current_alerts' = current_alerts
              /\ notify_aux' = notify_aux
              /\ sent' = NothingSent
              /\ pc = "loop" /\ pc' = "loop"
        /\ (call' # call /\ call'.made)
           => /\ call'.previous_alerts = current_alerts
              /\ call'.aux_in = notify_aux
      ]_vars

\* C19 witness: the first fetch of the loop failed and the next one
\* returned; the engine was called, 70 s after the start, with the alerts of
\* the initial fetch as previous list.
C19_Witness ==
    /\ call.made
    /\ call.now = SleepInterval + RetrySleep + SleepInterval
    /\ call.previous_alerts # <<>>
    /\ call.previous_alerts # call.current_alerts

\* C20: after every cycle of the polling loop that completed its
\* notification step, the remembered alert list, which the next cycle
\* passes as previous list, is the list fetched in that cycle, and the
\* carried notify_aux is the value the notification step returned.
C20_CycleHandsOver ==
    (pc = "loop" /\ fetched.bound)
    => /\ current_alerts = fetched.list
       /\ notify_aux = fetched.returned

\* C20 witness: a second cycle completed its notification step after a
\* fetch that brought alerts.
C20_Witness ==
    /\ pc = "loop"
    /\ fetched.bound
    /\ fetched.list # <<>>
    /\ current_alerts = fetched.list
    /\ clock >= SleepInterval + SleepInterval

\* the characters of a rendered text with, for each, whether its piece is
\* the escaped value of a field
RECURSIVE TextChars(_)
TextChars(pieces) ==
    IF pieces = <<>> THEN <<>>
    ELSE [i \in 1..Len(Head(pieces).str) |->
             [c |-> Head(pieces).str[i], field |-> Head(pieces).field]]
           \o TextChars(Tail(pieces))

\* C17: in the text rendered for an alert whose fields are strings, every
\* character of the set _ * [ ] ( ) ~ ` > # + - = | { } . ! that comes from
\* a label key, a label value, the alert type, the path, the last value or
\* the id is preceded by a backslash.
C17_FieldsAreEscaped ==
    render.done
    => LET cs == TextChars(render.text)
       IN \A i \in 1..Len(cs) :
            (cs[i].field /\ cs[i].c \in SpecialChars)
            => (i > 1 /\ cs[i - 1].c = "\\")

\* C17 witness: an alert with a full stop, a hyphen or a parenthesis in a
\* label value has been rendered, and the text has the character after a
\* backslash.
C17_Witness ==
    /\ render.done
    /\ \E i \in 1..Len(render.alert.labelJSON) :
          \E j \in 1..Len(render.alert.labelJSON[i].v) :
             render.alert.labelJSON[i].v[j] \in {".", "-", "("}
    /\ \E i \in 1..Len(render.text) :
          /\ render.text[i].field
          /\ Len(render.text[i].str) = 2
          /\ render.text[i].str[1] = "\\"
          /\ render.text[i].str[2] \in {".", "-", "("}

\* C21: in the polling loop, an alert of the initial fetch that has been
\* present ever since is, while it stays, not in the carried pending map
\* and gets no opened event; at the cycle whose fetch no longer has it the
\* engine returns exactly one closed-long-lived event for it and no
\* closed-short-lived one.
C21_InitialAlertsAreLongLived ==
    \A id \in AlertIds :
        (/\ UniqueCall
         /\ id \in AlertIdsOf(call.previous_alerts)
         /\ call.track_before[id].opened_at < 0)
        => /\ id \notin DOMAIN Pending(call.aux_in)
           /\ CountMentions(call.res.mentions, "opened", id) = 0
           /\ id \in ClosedIds
                => /\ Returned(call.res)
                   /\ CountMentions(call.res.mentions, "closed", id) = 1
                   /\ CountMentions(call.res.mentions, "short_lived", id) = 0

RECURSIVE SumLines(_)
SumLines(texts) ==
    IF texts = <<>> THEN 0 ELSE Len(Head(texts)) + SumLines(Tail(texts))

\* C22: a call returns at most three message texts, as many as there are
\* categories with an event; every text holds the events of one category,
\* one per line, and the lines of all texts together are as many as the
\* events.
C22_OneTextPerCategory ==
    UniqueCall
    => /\ Returned(call.res)
       /\ Len(call.res.message_texts) <= Cardinality({"closed", "short_lived", "opened"})
       /\ Len(call.res.message_texts)
            = Cardinality({call.res.mentions[i].glyph :
                              i \in 1..Len(call.res.mentions)})
       /\ \A t \in 1..Len(call.res.message_texts) :
            LET text == call.res.message_texts[t]
            IN /\ text # <<>>
               /\ \A i \in 1..Len(text) : text[i].glyph = text[1].glyph
       /\ SumLines(call.res.message_texts) = Len(call.res.mentions)

====
